---------------------------- MODULE Spec2Model ----------------------------
(***************************************************************************)
(* A model of the falling-sand simulation: the pixel grid with its chunk   *)
(* flags (world.hpp, world.cpp), the per-pixel update pipeline             *)
(* (update.cpp), the row iteration of a step (tile.cpp) and the explosion  *)
(* ray caster (explosion.cpp).                                             *)
(*                                                                         *)
(* Numbers.  Velocities are kept in units of 1/VelScale cell per step and  *)
(* colours in units of 1/ColourScale; probabilities are kept in            *)
(* thousandths.  A draw of random_unit() is represented by the outcome of  *)
(* the comparison it is used in.                                           *)
(***************************************************************************)
EXTENDS Integers, Sequences, FiniteSets, TLC

VARIABLES
    pixels,     \* world::d_pixels : position -> pixel
    chunks,     \* world::d_chunks : chunk index -> chunk
    pc,         \* where the driver is: "idle", inside a step, inside an explosion
    cur,        \* the iteration cursor of the running operation
    nsteps,     \* number of steps that have been started
    nwrites,    \* number of writes made from outside a step
    last,       \* the last completed call: its name, arguments and result
    snap        \* the world as it was when the running operation was entered

vars == <<pixels, chunks, pc, cur, nsteps, nwrites, last, snap>>

---------------------------------------------------------------------------
(* Sizes.  world_size = chunk_size * num_chunks (world.hpp:15-19).         *)

chunk_size == 2
num_chunks == 2
world_size == chunk_size * num_chunks

Coord    == 0 .. (world_size - 1)
Pos      == Coord \X Coord
ChunkIdx == 0 .. (num_chunks * num_chunks - 1)

Max(a, b) == IF a >= b THEN a ELSE b
Abs(a)    == IF a < 0 THEN -a ELSE a

\* C++ integer division and remainder truncate towards zero.
TruncDiv(a, b) == IF a >= 0 THEN a \div b ELSE -((-a) \div b)
TruncRem(a, b) == a - b * TruncDiv(a, b)

---------------------------------------------------------------------------
(* Pixels (pixel.hpp).                                                     *)

pixel_type ==
    {"none", "sand", "dirt", "coal", "water", "lava", "acid", "rock",
     "titanium", "steam", "ember"}

pixel_phase == {"solid", "liquid", "gas"}

pixel_flags == {"is_updated", "is_falling", "is_burning"}

VelScale    == 10000
ColourScale == 25600

\* A probability strictly between 0 and 1: every such value gives a draw both
\* outcomes, so the model does not depend on which one it is.
SomeChance == 500

\* pixel_properties{} : the defaults of every field (pixel.hpp:42-66).
default_properties ==
    [ phase               |-> "solid",
      gravity_factor      |-> 0,      \* in tenths
      inertial_resistance |-> 0,      \* in thousandths
      dispersion_rate     |-> 0,
      can_move_diagonally |-> FALSE,
      can_boil_water      |-> FALSE,
      corrosion_resist    |-> 800,
      is_corrosion_source |-> FALSE,
      flammability        |-> 0,
      put_out_surrounded  |-> 0,
      put_out             |-> 0,
      burn_out_chance     |-> 0,
      is_burn_source      |-> FALSE,
      is_ember_source     |-> FALSE ]

\* The material table: properties(px) depends on px.type only.
properties_of(t) ==
    CASE t = "none" ->
           [default_properties EXCEPT !.corrosion_resist = 1000]
      [] t = "sand" ->
           [default_properties EXCEPT !.gravity_factor = 10,
               !.inertial_resistance = 100, !.can_move_diagonally = TRUE,
               !.corrosion_resist = 300]
      [] t = "dirt" ->
           [default_properties EXCEPT !.gravity_factor = 10,
               !.inertial_resistance = 400, !.can_move_diagonally = TRUE,
               !.corrosion_resist = 500]
      [] t = "coal" ->
           [default_properties EXCEPT !.gravity_factor = 10,
               !.inertial_resistance = 950, !.can_move_diagonally = TRUE,
               !.corrosion_resist = 800, !.flammability = 20]
      [] t = "water" ->
           [default_properties EXCEPT !.phase = "liquid",
               !.gravity_factor = 10, !.dispersion_rate = 5,
               !.corrosion_resist = 1000]
      [] t = "lava" ->
           [default_properties EXCEPT !.phase = "liquid",
               !.gravity_factor = 10, !.dispersion_rate = 1,
               !.corrosion_resist = 1000, !.can_boil_water = TRUE,
               !.is_burn_source = TRUE]
      [] t = "acid" ->
           [default_properties EXCEPT !.phase = "liquid",
               !.gravity_factor = 10, !.dispersion_rate = 1,
               !.corrosion_resist = 1000, !.is_corrosion_source = TRUE]
      [] t = "rock" ->
           [default_properties EXCEPT !.corrosion_resist = 950]
      [] t = "titanium" ->
           [default_properties EXCEPT !.corrosion_resist = 1000]
      [] t = "steam" ->
           [default_properties EXCEPT !.phase = "gas",
               !.gravity_factor = -2, !.dispersion_rate = 9,
               !.corrosion_resist = 0]
      [] t = "ember" ->
           [default_properties EXCEPT !.phase = "gas",
               !.corrosion_resist = 0, !.burn_out_chance = SomeChance]
      \* oil stands for the flammable materials (fuse, oil, gunpowder,
      \* methane), whose fire controls lie strictly between 0 and 1
      [] t = "oil" ->
           [default_properties EXCEPT
               !.flammability = SomeChance, !.put_out_surrounded = SomeChance,
               !.put_out = SomeChance, !.burn_out_chance = SomeChance]

properties(px) == properties_of(px.type)


\* from_hex(0xRRGGBB): the three bytes over 256, alpha 1.
from_hex(r, g, b) == <<r * 100, g * 100, b * 100, ColourScale>>

NoiseMax == 1024    \* 0.04 of ColourScale

\* light_noise(): three draws from [-0.04, 0.04] and the constant 1.0.  The
\* draws are represented by the two ends of the range.
light_noise == { <<n, n, n, ColourScale>> : n \in {-NoiseMax, NoiseMax} }

AddColour(c, d) == [i \in 1..4 |-> c[i] + d[i]]

\* colour *= 0.8f
Darken(c) == [i \in 1..4 |-> (c[i] * 4) \div 5]

\* A freshly constructed pixel: velocity and the flags not named are zero.
\* runs is a history field: how often update_pixel has run its phases on
\* this pixel in the current step.
MakePixel(t, c, f) ==
    [type |-> t, colour |-> c, velocity |-> <<0, 0>>, flags |-> f, runs |-> 0]

\* pixel::air() with is_falling set.
air_mut == MakePixel("none", from_hex(44, 58, 71), {"is_falling"})

air      == MakePixel("none", from_hex(44, 58, 71), {})
titanium == MakePixel("titanium", from_hex(223, 228, 234), {})

Noisy(t, base, f) == { MakePixel(t, AddColour(base, n), f) : n \in light_noise }

sand  == Noisy("sand",  from_hex(248, 239, 186), {"is_falling"})
coal  == Noisy("coal",  from_hex(30, 39, 46),    {"is_falling"})
dirt  == Noisy("dirt",  from_hex(92, 29, 6),     {"is_falling"})
rock  == Noisy("rock",  from_hex(200, 200, 200), {})
water == Noisy("water", from_hex(27, 156, 252),  {})
lava  == Noisy("lava",  from_hex(249, 127, 81),  {})
acid  == Noisy("acid",  from_hex(46, 213, 115),  {})
steam == Noisy("steam", from_hex(154, 236, 219), {})
ember == Noisy("ember", from_hex(255, 165, 0),   {"is_burning"})
oil   == Noisy("oil",   from_hex(64, 64, 64),    {})

\* One pixel of each material, for building worlds.
Sample(S) == CHOOSE p \in S : \A q \in S : p.colour[1] <= q.colour[1]

pixel_of(t) ==
    CASE t = "none" -> air
      [] t = "titanium" -> titanium
      [] t = "sand"  -> Sample(sand)
      [] t = "coal"  -> Sample(coal)
      [] t = "dirt"  -> Sample(dirt)
      [] t = "rock"  -> Sample(rock)
      [] t = "water" -> Sample(water)
      [] t = "lava"  -> Sample(lava)
      [] t = "acid"  -> Sample(acid)
      [] t = "steam" -> Sample(steam)
      [] t = "ember" -> Sample(ember)
      [] t = "oil"   -> Sample(oil)

---------------------------------------------------------------------------
(* The world (world.hpp, world.cpp, tile.cpp).                             *)

Off(p, o) == <<p[1] + o[1], p[2] + o[2]>>

valid(pos) ==
    0 <= pos[1] /\ pos[1] < world_size /\ 0 <= pos[2] /\ pos[2] < world_size

get_chunk_index(chunk) == num_chunks * chunk[2] + chunk[1]

chunk_of(pos) == <<TruncDiv(pos[1], chunk_size), TruncDiv(pos[2], chunk_size)>>

MarkNext_mut(ch, c) ==
    IF get_chunk_index(c) \in DOMAIN ch
    THEN [ch EXCEPT ![get_chunk_index(c)] =
                      [should_step |-> TRUE, should_step_next |-> TRUE]]
    ELSE ch

\* chunks[get_chunk_index(c)].should_step_next = true
MarkNext(ch, c) ==
    IF get_chunk_index(c) \in DOMAIN ch
    THEN [ch EXCEPT ![get_chunk_index(c)].should_step_next = TRUE]
    ELSE ch

WakeRight(ch, pixel) ==
    LET neighbour == Off(chunk_of(pixel), <<1, 0>>) IN
    IF pixel[1] # world_size - 1 /\ TruncRem(pixel[1] + 1, chunk_size) = 0
       /\ valid(neighbour)
    THEN MarkNext(ch, neighbour) ELSE ch

\* The wake of the chunk to the left without the range test on the
\* neighbour.
WakeLeft_mut(ch, pixel) ==
    LET neighbour == Off(chunk_of(pixel), <<-1, 0>>) IN
    IF pixel[1] # 0 /\ TruncRem(pixel[1] - 1, chunk_size) = 0
    THEN MarkNext(ch, neighbour) ELSE ch

WakeLeft(ch, pixel) ==
    LET neighbour == Off(chunk_of(pixel), <<-1, 0>>) IN
    IF pixel[1] # 0 /\ TruncRem(pixel[1] - 1, chunk_size) = 0
       /\ valid(neighbour)
    THEN MarkNext(ch, neighbour) ELSE ch

WakeDown(ch, pixel) ==
    LET neighbour == Off(chunk_of(pixel), <<0, 1>>) IN
    IF pixel[2] # world_size - 1 /\ TruncRem(pixel[2] + 1, chunk_size) = 0
       /\ valid(neighbour)
    THEN MarkNext(ch, neighbour) ELSE ch

WakeUp(ch, pixel) ==
    LET neighbour == Off(chunk_of(pixel), <<0, -1>>) IN
    IF pixel[2] # 0 /\ TruncRem(pixel[2] - 1, chunk_size) = 0
       /\ valid(neighbour)
    THEN MarkNext(ch, neighbour) ELSE ch

wake_chunk_with_pixel(ch, pixel) ==
    WakeUp(WakeDown(WakeLeft(WakeRight(
        MarkNext(ch, chunk_of(pixel)), pixel), pixel), pixel), pixel)

\* The state a call works on: the pixels, the chunks, rng, the draws the
\* call has taken from the random stream so far, in order, and edge, what
\* the call has done at or beyond the edge of the grid.
Running(px, ch) == [px |-> px, ch |-> ch, rng |-> <<>>, edge |-> {}]

\* The indices around those of d_chunks, with no chunk awake.
ProbeChunks ==
    [i \in (-(num_chunks + 1)) .. (num_chunks * num_chunks + num_chunks) |->
        [should_step |-> FALSE, should_step_next |-> FALSE]]

\* The indices outside d_chunks that wake_chunk_with_pixel(pixel) writes at.
OutWrites(pixel) ==
    { i \in DOMAIN ProbeChunks \ ChunkIdx :
        wake_chunk_with_pixel(ProbeChunks, pixel)[i].should_step_next }

\* The positions of the world and those one cell outside it.
Around == ((-1) .. world_size) \X ((-1) .. world_size)

\* What a wake of the chunk of pixel adds to edge: <<0, x, y>> for a pixel
\* position outside the world, <<1, i, 0>> for a write at index i outside
\* d_chunks.
WakeEdgeAt ==
    [pixel \in Around |->
        (IF valid(pixel) THEN {} ELSE {<<0, pixel[1], pixel[2]>>})
            \cup { <<1, i, 0>> : i \in OutWrites(pixel) }]

WakeEdge(pixel) == WakeEdgeAt[pixel]

\* What a write of the cell at pos adds to edge: <<2, x, y>> for a
\* position outside the world.
CellEdge(pos) == IF valid(pos) THEN {} ELSE {<<2, pos[1], pos[2]>>}

\* The running state with e added to edge.
Log(s, e) == IF e = {} THEN s ELSE [s EXCEPT !.edge = @ \cup e]

\* The state after one more draw; d is the outcome drawn, as a number.
Draw(s, d) == [s EXCEPT !.rng = Append(@, d)]

Bit(b) == IF b THEN 1 ELSE 0

\* world::set: the write of tile::set, then the wake of the chunk.
set(s, pos, p) ==
    Log([s EXCEPT !.px[pos] = p, !.ch = wake_chunk_with_pixel(s.ch, pos)],
        CellEdge(pos) \cup WakeEdge(pos))

tile_swap_mut(px, lhs, rhs) == [px EXCEPT ![rhs] = px[lhs]]

\* tile::swap: std::swap(at(lhs), at(rhs)).
tile_swap(px, lhs, rhs) == [px EXCEPT ![lhs] = px[rhs], ![rhs] = px[lhs]]

\* The position tile::swap returns.
swap_ret(lhs, rhs) == rhs

\* world::swap: the exchange of tile::swap, then the wake of both chunks.
\* The position returned is rhs.
swap(s, lhs, rhs) ==
    Log([s EXCEPT !.px = tile_swap(s.px, lhs, rhs),
                  !.ch = wake_chunk_with_pixel(wake_chunk_with_pixel(s.ch, lhs), rhs)],
        CellEdge(lhs) \cup CellEdge(rhs) \cup WakeEdge(lhs) \cup WakeEdge(rhs))

---------------------------------------------------------------------------
(* Movement rules (update.cpp).                                            *)

can_pixel_move_to_mut(px, src_pos, dst_pos) ==
    /\ valid(src_pos) /\ valid(dst_pos)
    /\ \/ px[dst_pos].type = "none"
       \/ properties(px[src_pos]).phase \in {"solid", "liquid"}
          /\ properties(px[dst_pos]).phase \in {"liquid", "gas"}

\* can_pixel_move_to with every destination inside the world accepted.
can_pixel_move_to_any(px, src_pos, dst_pos) == valid(src_pos) /\ valid(dst_pos)

can_pixel_move_to(px, src_pos, dst_pos) ==
    IF ~valid(src_pos) \/ ~valid(dst_pos) THEN FALSE
    ELSE IF px[dst_pos].type = "none" THEN TRUE
    ELSE LET src == properties(px[src_pos]).phase
             dst == properties(px[dst_pos]).phase
         IN  CASE src = "solid"  -> dst = "liquid" \/ dst = "gas"
               [] src = "liquid" -> dst = "gas"
               [] OTHER          -> FALSE


\* The outcomes of random_unit() < p and of random_unit() > p for a draw
\* from [0, 1), p in thousandths.
DrawLess(p)    == IF p <= 0 THEN {FALSE} ELSE IF p >= 1000 THEN {TRUE} ELSE BOOLEAN
DrawGreater(p) == IF p >= 1000 THEN {FALSE} ELSE BOOLEAN

\* coin_flip()
coin_flip == BOOLEAN

neighbour_offsets ==
    << <<1, 0>>, <<-1, 0>>, <<0, 1>>, <<0, -1>>,
       <<1, 1>>, <<-1, -1>>, <<-1, 1>>, <<1, -1>> >>

SetFlag(s, pos, f, b) ==
    Log([s EXCEPT !.px[pos].flags = IF b THEN @ \cup {f} ELSE @ \ {f}], CellEdge(pos))

Wake(s, pos) == Log([s EXCEPT !.ch = wake_chunk_with_pixel(s.ch, pos)], WakeEdge(pos))

\* One round of the loop of set_adjacent_free_falling: x is l or r; the
\* chunk woken is the one of l in both rounds.
AdjacentFreeFalling(s, l, x) ==
    IF valid(x) /\ properties(s.px[x]).gravity_factor # 0
    THEN { Draw(IF b THEN SetFlag(Wake(s, l), x, "is_falling", TRUE) ELSE Wake(s, l),
                Bit(b))
             : b \in DrawGreater(properties(s.px[x]).inertial_resistance) }
    ELSE {s}

set_adjacent_free_falling(s, pos) ==
    LET l == Off(pos, <<-1, 0>>)
        r == Off(pos, <<1, 0>>)
    IN  UNION { AdjacentFreeFalling(s1, l, r) : s1 \in AdjacentFreeFalling(s, l, l) }

\* The loop of move_offset with `continue` in place of `break`.
RECURSIVE MoveLoop_skip(_, _, _, _, _, _)
MoveLoop_skip(s, pos, a, off, steps, i) ==
    IF i = steps THEN {[s |-> s, pos |-> pos]}
    ELSE LET next_pos == <<a[1] + TruncDiv(off[1] * (i + 1), steps),
                           a[2] + TruncDiv(off[2] * (i + 1), steps)>>
         IN  IF ~can_pixel_move_to(s.px, pos, next_pos)
             THEN MoveLoop_skip(s, pos, a, off, steps, i + 1)
             ELSE UNION { MoveLoop_skip(s2, next_pos, a, off, steps, i + 1)
                            : s2 \in set_adjacent_free_falling(
                                        swap(s, pos, next_pos), next_pos) }

\* The loop of move_offset from round i on: the set of (world, position)
\* it can end in.  a is the start, off the offset, steps the round count.
RECURSIVE MoveLoop(_, _, _, _, _, _)
MoveLoop(s, pos, a, off, steps, i) ==
    IF i = steps THEN {[s |-> s, pos |-> pos]}
    ELSE LET next_pos == <<a[1] + TruncDiv(off[1] * (i + 1), steps),
                           a[2] + TruncDiv(off[2] * (i + 1), steps)>>
         IN  IF ~can_pixel_move_to(s.px, pos, next_pos)
             THEN {[s |-> s, pos |-> pos]}
             ELSE UNION { MoveLoop(s2, next_pos, a, off, steps, i + 1)
                            : s2 \in set_adjacent_free_falling(
                                        swap(s, pos, next_pos), next_pos) }

\* move_offset: the set of results [s, pos, moved].
move_offset(s, pos, offset) ==
    LET steps == Max(Abs(offset[1]), Abs(offset[2])) IN
    { IF r.pos # pos
      THEN [s |-> Wake(SetFlag(r.s, r.pos, "is_falling", TRUE), r.pos),
            pos |-> r.pos, moved |-> TRUE]
      ELSE [s |-> r.s, pos |-> pos, moved |-> FALSE]
        : r \in MoveLoop(s, pos, pos, offset, steps, 0) }

is_surrounded(px, pos) ==
    \A i \in 1..8 :
        valid(Off(pos, neighbour_offsets[i]))
            => px[Off(pos, neighbour_offsets[i])].type # "none"

sign(f) == IF f < 0 THEN -1 ELSE IF f > 0 THEN 1 ELSE 0

\* config::gravity.y in hundredths and 1 / config::time_step.
GravityY       == 981
StepsPerSecond == 60

\* gravity_factor * config::gravity * config::time_step, y component, for a
\* gravity factor in tenths.
GravityStep(gf) == TruncDiv(gf * GravityY * VelScale, 10 * 100 * StepsPerSecond)

\* glm::ivec2{velocity}: each component truncated towards zero.
ToCells(v) == <<TruncDiv(v[1], VelScale), TruncDiv(v[2], VelScale)>>

\* The scope_exit of update_pixel_position left out.
after_position_update_mut(r, start_pos) == [s |-> r.s, pos |-> r.pos]

\* The scope_exit of update_pixel_position.
after_position_update(r, start_pos) ==
    [s |-> SetFlag(r.s, r.pos, "is_falling", r.pos # start_pos), pos |-> r.pos]

\* Two move_offset attempts in the order given; the first that moves ends
\* the search.  Results [s, pos, moved].
TryOffsets(s, pos, o1, o2) ==
    UNION { IF r1.moved THEN {r1} ELSE move_offset(r1.s, pos, o2)
              : r1 \in move_offset(s, pos, o1) }

TryFlipped_mut(s, pos, o1, o2) ==
    UNION { IF c THEN TryOffsets(s, pos, o2, o1)
                 ELSE TryOffsets(s, pos, o1, o2)
              : c \in coin_flip }

\* Both orders of a coin-flipped pair of offsets.
TryFlipped(s, pos, o1, o2) ==
    UNION { IF c THEN TryOffsets(Draw(s, 1), pos, o2, o1)
                 ELSE TryOffsets(Draw(s, 0), pos, o1, o2)
              : c \in coin_flip }

ZeroVy(s, pos) == [s EXCEPT !.px[pos].velocity = <<@[1], 0>>]

\* The dispersion part of update_pixel_position, entered with pos = start.
Disperse(s, pos, props) ==
    IF props.dispersion_rate # 0
    THEN TryFlipped(ZeroVy(s, pos), pos,
                    <<-props.dispersion_rate, 0>>, <<props.dispersion_rate, 0>>)
    ELSE {[s |-> s, pos |-> pos, moved |-> FALSE]}

\* The diagonal part and what follows it.
Diagonal(s, pos, props) ==
    IF props.can_move_diagonally
    THEN LET dir == sign(props.gravity_factor) IN
         UNION { IF r.moved THEN {r} ELSE Disperse(ZeroVy(r.s, pos), pos, props)
                   : r \in TryFlipped(s, pos, <<-1, dir>>, <<1, dir>>) }
    ELSE Disperse(s, pos, props)

\* What follows the gravity part when it did not move the pixel.
AfterGravity(s, pos, props) ==
    IF props.inertial_resistance # 0 /\ "is_falling" \notin s.px[pos].flags
    THEN {[s |-> s, pos |-> pos, moved |-> FALSE]}
    ELSE Diagonal(s, pos, props)

\* update_pixel_position: the set of results [s, pos].
update_pixel_position(s, pos) ==
    LET props == properties(s.px[pos])
        s1 == IF props.gravity_factor # 0
              THEN [s EXCEPT !.px[pos].velocity =
                               <<@[1], @[2] + GravityStep(props.gravity_factor)>>]
              ELSE s
        fell == IF props.gravity_factor # 0
                THEN move_offset(s1, pos, ToCells(s1.px[pos].velocity))
                ELSE {[s |-> s1, pos |-> pos, moved |-> FALSE]}
    IN  { after_position_update(r, pos)
            : r \in UNION { IF g.moved THEN {g} ELSE AfterGravity(g.s, pos, props)
                              : g \in fell } }

\* update_pixel_attributes: the set of worlds it can end in.
update_pixel_attributes(s, pos) ==
    LET props == properties(s.px[pos]) IN
    IF "is_burning" \in s.px[pos].flags
    THEN LET s1 == Wake(s, pos)
             put_out == IF is_surrounded(s1.px, pos)
                        THEN props.put_out_surrounded ELSE props.put_out
         IN  { LET s2 == Draw(Draw(IF a THEN SetFlag(s1, pos, "is_burning", FALSE)
                                        ELSE s1, Bit(a)), Bit(b))
               IN  IF b THEN [s2 EXCEPT !.px[pos] = air] ELSE s2
                 : a \in DrawLess(put_out), b \in DrawLess(props.burn_out_chance) }
    ELSE {s}

Boil_mut(s, pos, n, props) ==
    IF properties(s.px[n]).can_boil_water /\ s.px[n].type = "water"
    THEN { Draw([s EXCEPT !.px[n] = p], p.colour[1]) : p \in steam }
    ELSE {s}

\* Boil writing lava over the water in place of steam.
Boil_lava(s, pos, n, props) ==
    IF props.can_boil_water /\ s.px[n].type = "water"
    THEN { Draw([s EXCEPT !.px[n] = p], p.colour[1]) : p \in lava }
    ELSE {s}

\* The four effects on one neighbour, in the order of the loop body.
Boil(s, pos, n, props) ==
    IF props.can_boil_water /\ s.px[n].type = "water"
    THEN { Draw([s EXCEPT !.px[n] = p], p.colour[1]) : p \in steam }
    ELSE {s}

Corrode_mut(s, pos, n, props) ==
    IF props.is_corrosion_source
    THEN { [s EXCEPT !.px[n] = air] }
    ELSE {s}

Corrode(s, pos, n, props) ==
    IF props.is_corrosion_source
    THEN UNION { IF a
                 THEN { Draw(Draw(IF b THEN [s EXCEPT !.px[n] = air, !.px[pos] = air]
                                       ELSE [s EXCEPT !.px[n] = air], 1), Bit(b))
                          : b \in DrawGreater(900) }
                 ELSE {Draw(s, 0)}
                   : a \in DrawGreater(properties(s.px[n]).corrosion_resist) }
    ELSE {s}

\* The fire spread of affect_neighbours without the wake of l.227.
SpreadFire_nowake(s, pos, n, props) ==
    IF props.is_burn_source \/ "is_burning" \in s.px[pos].flags
    THEN { Draw(IF a THEN SetFlag(s, n, "is_burning", TRUE) ELSE s, Bit(a))
             : a \in DrawLess(properties(s.px[n]).flammability) }
    ELSE {s}

SpreadFire(s, pos, n, props) ==
    IF props.is_burn_source \/ "is_burning" \in s.px[pos].flags
    THEN { Draw(IF a THEN Wake(SetFlag(s, n, "is_burning", TRUE), n) ELSE s, Bit(a))
             : a \in DrawLess(properties(s.px[n]).flammability) }
    ELSE {s}

ProduceEmbers(s, pos, n, props) ==
    IF (props.is_ember_source \/ "is_burning" \in s.px[pos].flags)
       /\ s.px[n].type = "none"
    THEN {Draw(s, 0)}
         \cup { Draw(Draw(Wake([s EXCEPT !.px[n] = p], n), 1), p.colour[1]) : p \in ember }
    ELSE {s}

AffectOne(s, pos, n, props) ==
    UNION { ProduceEmbers(s3, pos, n, props)
      : s3 \in UNION { SpreadFire(s2, pos, n, props)
          : s2 \in UNION { Corrode(s1, pos, n, props)
              : s1 \in Boil(s, pos, n, props) } } }

\* The loop of affect_neighbours from offset i on, over a set of worlds.
\* props is the record looked up before the loop.
RECURSIVE AffectLoop(_, _, _, _)
AffectLoop(S, pos, props, i) ==
    IF i > 8 THEN S
    ELSE LET n == Off(pos, neighbour_offsets[i]) IN
         AffectLoop(IF valid(n)
                    THEN UNION { AffectOne(s, pos, n, props) : s \in S }
                    ELSE S,
                    pos, props, i + 1)

affect_neighbours(s, pos) == AffectLoop({s}, pos, properties(s.px[pos]), 1)

\* The last statement of update_pixel.
MarkUpdated_mut(s, start_pos, pos) == SetFlag(s, start_pos, "is_updated", TRUE)

MarkUpdated(s, start_pos, pos) == SetFlag(s, pos, "is_updated", TRUE)

\* update_pixel: the set of worlds it can end in.  The pixel the phases run
\* on has its runs counted.
update_pixel(s, pos) ==
    IF s.px[pos].type = "none" \/ "is_updated" \in s.px[pos].flags
    THEN {s}
    ELSE LET s0 == [s EXCEPT !.px[pos].runs = @ + 1] IN
         UNION { UNION { { MarkUpdated(s3, pos, r.pos)
                             : s3 \in affect_neighbours(s2, r.pos) }
                           : s2 \in update_pixel_attributes(r.s, r.pos) }
                   : r \in update_pixel_position(s0, pos) }


---------------------------------------------------------------------------
(* Worlds and chunk arrays to start from.                                  *)

\* chunk{} : both flags are true after construction (world.hpp:21-25).
new_chunk == [should_step |-> TRUE, should_step_next |-> TRUE]

AirWorld == [p \in Pos |-> air]

\* The world AirWorld with the cells of the function cells overwritten.
WorldWith(cells) ==
    [p \in Pos |-> IF p \in DOMAIN cells THEN cells[p] ELSE air]

NoCall == [op |-> "none"]
NoCur  == [y |-> 0, k |-> 0, flip |-> FALSE]
NoSnap == [px |-> AirWorld, ch |-> [c \in ChunkIdx |-> new_chunk],
           event |-> "none", since |-> 0, dirty |-> {}, edge |-> {}]

MaxWrites == 1

---------------------------------------------------------------------------
(* can_pixel_move_to as a function of the two cells and the positions.     *)

MoveSrc == <<1, 1>>
MoveDst == <<1, 2>>

\* Arguments of the call: the two cells, an empty cell, and positions
\* outside the world on each side.
MoveArgs == {MoveSrc, MoveDst, <<0, 0>>, <<-1, 1>>, <<1, world_size>>,
             <<world_size, 0>>, <<1, -1>>}

InitMove ==
    /\ \E ts \in pixel_type, td \in pixel_type :
          pixels = WorldWith((MoveSrc :> pixel_of(ts)) @@ (MoveDst :> pixel_of(td)))
    /\ chunks = [c \in ChunkIdx |-> new_chunk]
    /\ pc = "idle"
    /\ cur = NoCur
    /\ nsteps = 0
    /\ nwrites = 0
    /\ last = NoCall
    /\ snap = NoSnap

CallCanMove ==
    /\ \E a \in MoveArgs, b \in MoveArgs :
          last' = [op |-> "can_pixel_move_to", src |-> a, dst |-> b,
                   ret |-> can_pixel_move_to(pixels, a, b)]
    /\ UNCHANGED <<pixels, chunks, pc, cur, nsteps, nwrites, snap>>

NextMove == CallCanMove

SpecMove == InitMove /\ [][NextMove]_vars

MovePairs == {<<"solid", "liquid">>, <<"solid", "gas">>, <<"liquid", "gas">>}

\* C1: can_pixel_move_to(src, dst) returns true exactly when both positions
\* are in bounds and the destination is empty or (source phase, destination
\* phase) is one of (solid, liquid), (solid, gas), (liquid, gas).
C1_CanMoveTable ==
    last.op = "can_pixel_move_to" =>
        (last.ret <=>
            /\ valid(last.src) /\ valid(last.dst)
            /\ \/ pixels[last.dst].type = "none"
               \/ <<properties(pixels[last.src]).phase,
                    properties(pixels[last.dst]).phase>> \in MovePairs)

\* A liquid was refused a move into another liquid.
C1_Witness ==
    /\ last.op = "can_pixel_move_to"
    /\ ~last.ret
    /\ valid(last.src) /\ valid(last.dst)
    /\ properties(pixels[last.src]).phase = "liquid"
    /\ pixels[last.dst].type = "water"

---------------------------------------------------------------------------
(* wake_chunk_with_pixel and set, called on any cell of a sleeping world.  *)

InitWake ==
    /\ pixels = AirWorld
    /\ chunks \in [ChunkIdx -> {[should_step |-> FALSE, should_step_next |-> FALSE]}]
    /\ pc = "idle"
    /\ cur = NoCur
    /\ nsteps = 0
    /\ nwrites = 0
    /\ last = NoCall
    /\ snap = NoSnap

CallWake ==
    /\ \E pos \in Pos :
          /\ chunks' = wake_chunk_with_pixel(chunks, pos)
          /\ last' = [op |-> "wake_chunk_with_pixel", pos |-> pos]
    /\ UNCHANGED <<pixels, pc, cur, nsteps, nwrites, snap>>

CallSet ==
    /\ nwrites < MaxWrites
    /\ \E pos \in Pos, t \in {"sand", "water"} :
          LET s == set(Running(pixels, chunks), pos, pixel_of(t)) IN
          /\ pixels' = s.px
          /\ chunks' = s.ch
          /\ last' = [op |-> "set", pos |-> pos]
    /\ nwrites' = nwrites + 1
    /\ UNCHANGED <<pc, cur, nsteps, snap>>

\* The chunks are put to sleep again, as a step without activity does.
SleepAll ==
    /\ last.op # "none"
    /\ chunks' = [c \in ChunkIdx |-> [should_step |-> FALSE, should_step_next |-> FALSE]]
    /\ last' = NoCall
    /\ UNCHANGED <<pixels, pc, cur, nsteps, nwrites, snap>>

NextWake == CallWake \/ CallSet \/ SleepAll

SpecWake == InitWake /\ [][NextWake]_vars

orthogonal_offsets == {<<1, 0>>, <<-1, 0>>, <<0, 1>>, <<0, -1>>}

Awake(ch, pos) == ch[get_chunk_index(chunk_of(pos))].should_step_next

\* C2: after wake_chunk_with_pixel(pos) or set(pos, p) the chunk of pos and
\* the chunk of each in-bounds orthogonal neighbour of pos have
\* should_step_next set.
C2_WakeCoversNeighbours ==
    last.op \in {"wake_chunk_with_pixel", "set"} =>
        /\ Awake(chunks, last.pos)
        /\ \A o \in orthogonal_offsets :
              valid(Off(last.pos, o)) => Awake(chunks, Off(last.pos, o))


---------------------------------------------------------------------------
(* A step: the promotion of the chunk flags, the rows from the bottom up   *)
(* in a coin-flipped direction, and the clearing of is_updated.            *)

MaxSteps == 2

promote_mut(ch) ==
    [c \in DOMAIN ch |->
        [should_step |-> ch[c].should_step \/ ch[c].should_step_next,
         should_step_next |-> FALSE]]

\* Step entry: should_step takes should_step_next, which is cleared.
promote(ch) ==
    [c \in DOMAIN ch |->
        [should_step |-> ch[c].should_step_next, should_step_next |-> FALSE]]

is_chunk_awake(ch, pos) == ch[get_chunk_index(chunk_of(pos))].should_step

\* std::ranges::for_each(d_pixels, ... = false), with the history field.
clear_updated_mut(px) ==
    [p \in DOMAIN px |->
        IF px[p].type = "none" THEN px[p]
        ELSE [px[p] EXCEPT !.flags = @ \ {"is_updated"}, !.runs = 0]]

clear_updated(px) ==
    [p \in DOMAIN px |-> [px[p] EXCEPT !.flags = @ \ {"is_updated"}, !.runs = 0]]

\* What snap records at the entry of a step besides the world: the fill or
\* load that the steps since have followed without a write in between
\* (event) and how many steps that makes with this one (since); dirty, the
\* cells changed so far in the step, and edge, what the step has done at or
\* beyond the edge of the grid, start empty.
EntrySnap ==
    [px |-> pixels, ch |-> chunks,
     event |-> IF last.op \in {"fill", "load"} THEN last.op
               ELSE IF last.op = "step" THEN snap.event ELSE "none",
     since |-> IF last.op \in {"fill", "load"} THEN 1
               ELSE IF last.op = "step" /\ snap.since > 0 THEN snap.since + 1 ELSE 0,
     dirty |-> {}, edge |-> {}]

\* The entry of a step, for a run of at most limit steps.
StepEntry(limit) ==
    /\ pc = "idle"
    /\ nsteps < limit
    /\ snap' = EntrySnap
    /\ chunks' = promote(chunks)
    /\ pc' = "row"
    /\ cur' = [y |-> world_size - 1, k |-> 0, flip |-> FALSE]
    /\ nsteps' = nsteps + 1
    /\ last' = [op |-> "step_entry"]
    /\ UNCHANGED <<pixels, nwrites>>

StepBegin == StepEntry(MaxSteps)

\* The coin flip that picks the direction of row cur.y.
RowBegin ==
    /\ pc = "row"
    /\ \E c \in coin_flip : cur' = [cur EXCEPT !.k = 0, !.flip = c]
    /\ pc' = "cell"
    /\ last' = [op |-> "row"]
    /\ UNCHANGED <<pixels, chunks, nsteps, nwrites, snap>>

\* The cell the row's iteration visits k-th: left to right after heads,
\* right to left after tails.
CellAt(k) == <<IF cur.flip THEN k ELSE world_size - 1 - k, cur.y>>

\* inner(x, y) returns without running update_pixel's phases on the cell.
Skipped(pos) ==
    ~ (/\ is_chunk_awake(chunks, pos)
       /\ "is_updated" \notin pixels[pos].flags
       /\ pixels[pos].type # "none")

\* The cells from the cursor to the end of the row.
Ahead == cur.k .. (world_size - 1)

\* Of the cells the iteration passes over, those holding a pixel: the ones
\* passed over because the pixel is updated and the ones passed over
\* because the chunk sleeps.
SkipLog(ks) ==
    [updated |-> {CellAt(k) : k \in {j \in ks : /\ pixels[CellAt(j)].type # "none"
                                               /\ "is_updated" \in pixels[CellAt(j)].flags}},
     asleep  |-> {CellAt(k) : k \in {j \in ks : /\ pixels[CellAt(j)].type # "none"
                                               /\ "is_updated" \notin pixels[CellAt(j)].flags}}]

\* The cursor after the cell visited k-th: the next cell, the next row up,
\* or the end of the rows.
Advance(k) ==
    IF k + 1 < world_size
    THEN /\ cur' = [cur EXCEPT !.k = k + 1]
         /\ pc' = "cell"
    ELSE IF cur.y > 0
    THEN /\ cur' = [y |-> cur.y - 1, k |-> 0, flip |-> FALSE]
         /\ pc' = "row"
    ELSE /\ cur' = NoCur
         /\ pc' = "end"

\* inner(x, y) for the rest of the row when every cell of it is skipped.
InnerSkip ==
    /\ pc = "cell"
    /\ \A k \in Ahead : Skipped(CellAt(k))
    /\ Advance(world_size - 1)
    /\ last' = [op |-> "skip", skipped |-> SkipLog(Ahead)]
    /\ UNCHANGED <<pixels, chunks, nsteps, nwrites, snap>>

\* The cells in which two worlds differ.
Changed(px, qx) == { p \in Pos : px[p] # qx[p] }

\* inner(x, y) for the cells up to and including the next one that
\* update_pixel runs its phases on.
InnerUpdate ==
    /\ pc = "cell"
    /\ \E k \in Ahead :
          /\ ~Skipped(CellAt(k))
          /\ \A j \in cur.k .. (k - 1) : Skipped(CellAt(j))
          /\ \E s \in update_pixel(Running(pixels, chunks), CellAt(k)) :
                /\ pixels' = s.px
                /\ chunks' = s.ch
                /\ snap' = [snap EXCEPT !.dirty = @ \cup Changed(pixels, s.px),
                                        !.edge = IF s.edge = {} THEN @ ELSE @ \cup s.edge]
          /\ Advance(k)
          /\ last' = [op |-> "update_pixel", pos |-> CellAt(k),
                      skipped |-> SkipLog(cur.k .. (k - 1))]
    /\ UNCHANGED <<nsteps, nwrites>>

StepEnd ==
    /\ pc = "end"
    /\ pixels' = clear_updated(pixels)
    /\ pc' = "idle"
    /\ last' = [op |-> "step"]
    /\ snap' = [snap EXCEPT !.dirty = {}, !.edge = {}]
    /\ UNCHANGED <<chunks, cur, nsteps, nwrites>>

\* A write from outside between two steps: world::set on a cell.
WritePos  == {<<1, 1>>}
WriteType == {"sand"}

Write ==
    /\ pc = "idle"
    /\ nwrites < MaxWrites
    /\ \E pos \in WritePos, t \in WriteType :
          LET s == set(Running(pixels, chunks), pos, pixel_of(t)) IN
          /\ pixels' = s.px
          /\ chunks' = s.ch
          /\ last' = [op |-> "set", pos |-> pos]
    /\ nwrites' = nwrites + 1
    /\ UNCHANGED <<pc, cur, nsteps, snap>>

\* A pixel that has rested for n steps in an awake chunk: gravity has been
\* added to its velocity n times and is_falling is clear.
Rested(t, n) ==
    [pixel_of(t) EXCEPT !.velocity = <<0, n * GravityStep(properties_of(t).gravity_factor)>>,
                        !.flags = @ \ {"is_falling"}]

Burning(t) == [pixel_of(t) EXCEPT !.flags = @ \cup {"is_burning"}]

\* The world filled with the pixel bg, with the cells of the function cells
\* overwritten.
WorldOn(bg, cells) ==
    [p \in Pos |-> IF p \in DOMAIN cells THEN cells[p] ELSE bg]

\* The worlds a run starts from.
Scenarios ==
    { \* sand falling through water and steam in the open
      WorldOn(air, (<<1, 0>> :> Rested("sand", 13)) @@ (<<1, 1>> :> pixel_of("water"))
                @@ (<<1, 2>> :> pixel_of("steam")) @@ (<<1, 3>> :> titanium)),
      \* sand sliding towards a chunk that holds only rock
      WorldOn(air, (<<3, 0>> :> pixel_of("sand")) @@ (<<0, 3>> :> pixel_of("rock"))),
      \* lava beside water and coal, walled in by titanium
      WorldOn(titanium, (<<1, 2>> :> pixel_of("lava")) @@ (<<2, 2>> :> pixel_of("water"))
                @@ (<<1, 3>> :> pixel_of("coal")) @@ (<<2, 1>> :> air)),
      \* acid on sand, rock and steam, walled in by titanium
      WorldOn(titanium, (<<2, 2>> :> pixel_of("acid")) @@ (<<2, 3>> :> pixel_of("sand"))
                @@ (<<1, 3>> :> pixel_of("rock")) @@ (<<1, 2>> :> pixel_of("steam"))),
      \* an ember beside coal and one empty cell, walled in by titanium
      WorldOn(titanium, (<<1, 2>> :> pixel_of("ember")) @@ (<<1, 3>> :> pixel_of("coal"))
                @@ (<<2, 2>> :> air)),
      \* steam that has risen against the top edge, and dirt
      WorldOn(air, (<<3, 1>> :> Rested("steam", 31)) @@ (<<0, 1>> :> pixel_of("dirt")))
    }

Init ==
    /\ pixels \in Scenarios
    /\ chunks = [c \in ChunkIdx |-> new_chunk]
    /\ pc = "idle"
    /\ cur = NoCur
    /\ nsteps = 0
    /\ nwrites = 0
    /\ last = NoCall
    /\ snap = NoSnap

Next == StepBegin \/ RowBegin \/ InnerSkip \/ InnerUpdate \/ StepEnd \/ Write

Spec == Init /\ [][Next]_vars


ChunkOf(pos) == get_chunk_index(chunk_of(pos))

\* C3: within one step no pixel has the phases of update_pixel run on it
\* more than once, wherever its swaps have taken it.
C3_UpdatedAtMostOnce == \A p \in Pos : pixels[p].runs <= 1

\* The iteration reached a pixel that was updated earlier in the step and
\* had moved into a cell not visited before, and skipped it.
C3_Witness ==
    /\ last.op \in {"skip", "update_pixel"}
    /\ \E p \in last.skipped.updated :
          /\ pixels[p].runs = 1
          /\ "is_updated" \in pixels[p].flags
          /\ snap.px[p].type = "none"

\* C4: between step entry and step return no chunk's should_step changes,
\* and update_pixel runs its phases only on a cell of a chunk whose
\* should_step is set.
C4_ActiveFixedDuringStep ==
    [][pc # "idle" =>
        /\ \A c \in ChunkIdx : chunks'[c].should_step = chunks[c].should_step
        /\ last'.op = "update_pixel" => chunks[ChunkOf(last'.pos)].should_step]_vars

\* All rows are done; a chunk that sleeps in this step was woken during it
\* and holds a pixel the step did not update.
C4_Witness ==
    /\ pc = "end"
    /\ \E p \in Pos :
          /\ pixels[p].type # "none"
          /\ pixels[p].runs = 0
          /\ ~chunks[ChunkOf(p)].should_step
          /\ chunks[ChunkOf(p)].should_step_next

\* C5: at step entry every chunk's should_step takes the value its
\* should_step_next had before the entry, and should_step_next is cleared;
\* a pixel that is neither empty nor updated is skipped in the step only in
\* a chunk whose should_step_next was clear before the entry.
C5_PromotionAtEntry ==
    /\ last.op = "step_entry" =>
          \A c \in ChunkIdx :
              /\ chunks[c].should_step = snap.ch[c].should_step_next
              /\ ~chunks[c].should_step_next
    /\ last.op \in {"skip", "update_pixel"} =>
          \A p \in last.skipped.asleep : ~snap.ch[ChunkOf(p)].should_step_next

\* A step was entered with a chunk awake only because of a write made
\* after the step before it, and a pixel of that chunk was updated.
C5_Witness ==
    /\ nsteps = 2
    /\ nwrites = 1
    /\ last.op = "update_pixel"
    /\ snap.ch[ChunkOf(last.pos)].should_step_next
    /\ \E c \in ChunkIdx : ~snap.ch[c].should_step_next

NoneUpdated == \A p \in Pos : "is_updated" \notin pixels[p].flags

\* C6: whenever no step is running, no cell has is_updated set.
C6_UpdatedClearedAfterStep == pc = "idle" => NoneUpdated

\* A step has returned in which a pixel was destroyed and another created.
C6_Witness ==
    /\ last.op = "step"
    /\ NoneUpdated
    /\ \E p \in Pos : snap.px[p].type = "none" /\ pixels[p].type = "ember"
    /\ \E p \in Pos : snap.px[p].type = "ember" /\ pixels[p].type = "none"

TitaniumCells(px) == {p \in Pos : px[p].type = "titanium"}

\* C7: no step of the simulation removes or displaces a titanium cell, so
\* the number of titanium cells does not decrease.
C7_TitaniumStays ==
    [][nwrites' = nwrites =>
        /\ TitaniumCells(pixels) \subseteq TitaniumCells(pixels')
        /\ Cardinality(TitaniumCells(pixels')) >= Cardinality(TitaniumCells(pixels))]_vars

\* Acid has just corroded a neighbour while another neighbour is titanium.
C7_Witness ==
    /\ last.op = "update_pixel"
    /\ snap.px[last.pos].type = "acid"
    /\ \E i \in 1..8, j \in 1..8 :
          LET n == Off(last.pos, neighbour_offsets[i])
              m == Off(last.pos, neighbour_offsets[j])
          IN  /\ valid(n) /\ valid(m)
              /\ snap.px[n].type \in {"sand", "rock"}
              /\ pixels[n].type = "none"
              /\ pixels[m].type = "titanium"



\* The cell update_pixel runs its phases on next, when the cursor is in a
\* row and a cell of the rest of the row is not skipped.
HasNext == pc = "cell" /\ \E k \in Ahead : ~Skipped(CellAt(k))

NextCell ==
    CellAt(CHOOSE k \in Ahead :
               /\ ~Skipped(CellAt(k))
               /\ \A j \in cur.k .. (k - 1) : Skipped(CellAt(j)))

\* The states that update can end in, each with the draws it took.
Outcomes ==
    IF HasNext THEN update_pixel(Running(pixels, chunks), NextCell) ELSE {}

\* The draws a agree with the draws b as far as a goes.
IsPrefix(a, b) == Len(a) <= Len(b) /\ SubSeq(b, 1, Len(a)) = a

C20_ColoursInRange ==
    \A p \in Pos : \A i \in 1..4 :
        0 <= pixels[p].colour[i] /\ pixels[p].colour[i] <= ColourScale

---------------------------------------------------------------------------
(* Explosions (explosion.cpp).  A ray from start to end visits the points  *)
(* start + k * line / m for k = 0, 1, ..., where line = end - start and m  *)
(* is the larger of |line.x| and |line.y|; the cell of a point is the      *)
(* point with both coordinates truncated.  Radii and the scorch deviation  *)
(* are whole numbers of cells.                                             *)

MaxScorch == 2

\* The cell of the k-th point of the ray.
RayCell(start, line, k) ==
    LET m == Max(Abs(line[1]), Abs(line[2])) IN
    <<TruncDiv(start[1] * m + k * line[1], m), TruncDiv(start[2] * m + k * line[2], m)>>

\* glm::length2(curr - start) < glm::pow(limit, 2) at the k-th point.
Within(line, k, limit) ==
    LET m == Max(Abs(line[1]), Abs(line[2])) IN
    k * k * (line[1] * line[1] + line[2] * line[2]) < limit * limit * m * m

\* random_unit() < 0.05f ? pixel::ember() : pixel::air()
Debris == {air} \cup ember

\* What the first loop does on a cell that is not titanium.
Destroy(s, cell) == { set(s, cell, p) : p \in Debris }

\* The first loop of explosion_ray from the k-th point on: the set of
\* results [s, k], k being the point the loop ended at.
RECURSIVE BlastLoop(_, _, _, _, _)
BlastLoop_mut(s, start, line, k, blast) ==
    IF valid(RayCell(start, line, k)) /\ Within(line, k, blast)
    THEN UNION { BlastLoop(s2, start, line, k + 1, blast)
                   : s2 \in Destroy(s, RayCell(start, line, k)) }
    ELSE {[s |-> s, k |-> k]}

BlastLoop(s, start, line, k, blast) ==
    IF valid(RayCell(start, line, k)) /\ Within(line, k, blast)
    THEN IF s.px[RayCell(start, line, k)].type = "titanium"
         THEN {[s |-> s, k |-> k]}
         ELSE UNION { BlastLoop(s2, start, line, k + 1, blast)
                        : s2 \in Destroy(s, RayCell(start, line, k)) }
    ELSE {[s |-> s, k |-> k]}

\* The body of the second loop on one cell.
Scorch(s, cell) ==
    IF properties(s.px[cell]).phase = "solid"
    THEN [s EXCEPT !.px[cell].colour = Darken(@)]
    ELSE s

\* The second loop of explosion_ray from the k-th point on, for a scorch
\* limit that lets n more points pass.
RECURSIVE ScorchLoop(_, _, _, _, _)
ScorchLoop(s, start, line, k, n) ==
    IF n > 0 /\ valid(RayCell(start, line, k))
    THEN ScorchLoop(Scorch(s, RayCell(start, line, k)), start, line, k + 1, n - 1)
    ELSE s

\* random_from_range(min_radius, max_radius), in whole cells.
BlastDraws(info) == info.min_radius .. info.max_radius

ScorchDraws_mut(info) == 0 .. MaxScorch

\* The number of points within length(curr - start) +
\* |random_normal(0, scorch)| of the start, counted from curr: none when
\* the deviation is zero.
ScorchDraws(info) == IF info.scorch = 0 THEN {0} ELSE 0 .. MaxScorch

\* explosion_ray: the set of worlds it can end in.
explosion_ray(s, start, end, info) ==
    LET line == <<end[1] - start[1], end[2] - start[2]>> IN
    UNION { { ScorchLoop(r.s, start, line, r.k, n) : n \in ScorchDraws(info) }
              : r \in UNION { BlastLoop(s, start, line, 0, b) : b \in BlastDraws(info) } }

boundary(info) == info.max_radius + 3 * info.scorch

\* The end of the j-th of the four rays cast for i.
RayEnd(pos, info, i, j) ==
    CASE j = 1 -> Off(pos, <<i, boundary(info)>>)
      [] j = 2 -> Off(pos, <<i, -boundary(info)>>)
      [] j = 3 -> Off(pos, <<boundary(info), i>>)
      [] j = 4 -> Off(pos, <<-boundary(info), i>>)

\* A titanium strip across the world at the row y, with sand at the cells
\* of sands and the pixel bg elsewhere.
StripWorld(y, bg, sands) ==
    [p \in Pos |-> IF p[2] = y THEN titanium
                   ELSE IF p \in sands THEN pixel_of("sand")
                   ELSE bg]

Below == { p \in Pos : p[2] > 2 }

\* The explosions a run can set off: the world, the centre and the info.
ExplosionCases ==
    { [px |-> StripWorld(2, air, Below \cup {<<1, 1>>}), pos |-> <<1, 1>>,
       info |-> [min_radius |-> 2, max_radius |-> 2, scorch |-> 0]],
      [px |-> StripWorld(2, air, Below), pos |-> <<3, 0>>,
       info |-> [min_radius |-> 1, max_radius |-> 2, scorch |-> 0]],
      [px |-> StripWorld(1, pixel_of("water"), {<<0, 2>>}), pos |-> <<0, 0>>,
       info |-> [min_radius |-> 2, max_radius |-> 2, scorch |-> 1]] }

InitExplosion ==
    /\ \E c \in ExplosionCases :
          /\ pixels = c.px
          /\ last = [op |-> "none", pos |-> c.pos, info |-> c.info]
    /\ chunks = [c \in ChunkIdx |-> new_chunk]
    /\ pc = "idle"
    /\ cur = NoCur
    /\ nsteps = 0
    /\ nwrites = 0
    /\ snap = NoSnap

\* The entry of apply_explosion: the loop starts at i = -boundary.
ExplosionBegin ==
    /\ pc = "idle"
    /\ last.op = "none"
    /\ snap' = [snap EXCEPT !.px = pixels, !.ch = chunks]
    /\ pc' = "ray"
    /\ cur' = [i |-> -boundary(last.info), j |-> 1]
    /\ last' = [last EXCEPT !.op = "apply_explosion"]
    /\ UNCHANGED <<pixels, chunks, nsteps, nwrites>>

\* One call of explosion_ray, and the return of apply_explosion after the
\* last one.
ExplosionRay ==
    /\ pc = "ray"
    /\ \E s \in explosion_ray(Running(pixels, chunks), last.pos,
                              RayEnd(last.pos, last.info, cur.i, cur.j), last.info) :
          /\ pixels' = s.px
          /\ chunks' = s.ch
          /\ snap' = IF s.edge = {} THEN snap ELSE [snap EXCEPT !.edge = @ \cup s.edge]
    /\ IF cur.j < 4
       THEN /\ cur' = [cur EXCEPT !.j = @ + 1]
            /\ pc' = "ray"
       ELSE IF cur.i < boundary(last.info)
       THEN /\ cur' = [i |-> cur.i + 1, j |-> 1]
            /\ pc' = "ray"
       ELSE /\ cur' = NoCur
            /\ pc' = "idle"
    /\ UNCHANGED <<nsteps, nwrites, last>>

NextExplosion == ExplosionBegin \/ ExplosionRay

SpecExplosion == InitExplosion /\ [][NextExplosion]_vars

Exploding == last.op = "apply_explosion"

\* A row of the world that was titanium from edge to edge before the call.
TitaniumRow(y) == \A x \in Coord : snap.px[<<x, y>>].type = "titanium"

\* The row y lies strictly between the rows a and b.
Between(y, a, b) == (a < y /\ y < b) \/ (b < y /\ y < a)

Shielded(q) == \E y \in Coord : TitaniumRow(y) /\ Between(y, last.pos[2], q[2])

\* C8: a cell that a full-width row of titanium separates from the centre
\* is left as it was by apply_explosion, whatever the info.
C8_ShieldedUntouched ==
    Exploding => \A q \in Pos : Shielded(q) => pixels[q] = snap.px[q]

\* C9: a cell that is titanium when apply_explosion is called is titanium
\* throughout the call and after it.
C9_TitaniumKeepsType ==
    Exploding =>
        \A p \in Pos : snap.px[p].type = "titanium" => pixels[p].type = "titanium"

\* apply_explosion has returned; it destroyed the cell at its centre, next
\* to the titanium, and scorched a titanium cell.
C9_Witness ==
    /\ Exploding /\ pc = "idle"
    /\ \E p \in Pos :
          /\ snap.px[p].type = "titanium"
          /\ pixels[p].type = "titanium"
          /\ pixels[p].colour # snap.px[p].colour
    /\ snap.px[last.pos].type = "water" /\ pixels[last.pos].type = "ember"

\* The explosion of the scenario: centre two rows above the strip's far
\* side, radius reaching beyond the strip, no scorch.
StripCase ==
    /\ last.pos = <<1, 1>>
    /\ last.info = [min_radius |-> 2, max_radius |-> 2, scorch |-> 0]

---------------------------------------------------------------------------
(* The editor between two steps: Clear and Load (editor.cpp).              *)

\* get_pos: the index of a cell in d_pixels.
get_pos(pos) == pos[1] + world_size * pos[2]

fill_mut(px, p) ==
    [q \in DOMAIN px |-> IF get_pos(q) = world_size * world_size - 1 THEN px[q] ELSE p]

\* d_pixels.fill(p)
fill(px, p) == [q \in DOMAIN px |-> p]

\* wake_all_chunks(): should_step is set on every chunk.
wake_all_chunks(ch) == [c \in DOMAIN ch |-> [ch[c] EXCEPT !.should_step = TRUE]]

num_awake_chunks(ch) == Cardinality({c \in DOMAIN ch : ch[c].should_step})

\* archive(d_pixels) of a save: the records of the cells in index order.
\* A record holds type, colour, velocity and flags.
Saved(px) ==
    [i \in 1 .. (world_size * world_size) |->
        px[CHOOSE q \in Pos : get_pos(q) = i - 1]]

\* archive(d_pixels) of a load: the records are read into the cells one
\* after the other, in index order, until the array is full or the input
\* ends.
deserialise(px, file) ==
    [q \in DOMAIN px |-> IF get_pos(q) < Len(file) THEN file[get_pos(q) + 1] ELSE px[q]]

\* The read of a record past the end of the input throws, and nothing
\* between the read and main catches.
LoadThrows(file) == Len(file) < world_size * world_size

\* The worlds that were saved: rock in every chunk, and titanium everywhere.
SavedWorlds ==
    { [p \in Pos |-> IF p[1] % chunk_size = 0 /\ p[2] % chunk_size = 0
                     THEN pixel_of("rock") ELSE air],
      [p \in Pos |-> titanium] }

\* The inputs of a load: a save, a save cut short after its first record or
\* before it, and a save with a record too many.
LoadFiles ==
    UNION { { Saved(w), SubSeq(Saved(w), 1, 1), <<>>, Saved(w) \o <<air>> }
              : w \in SavedWorlds }

\* The Clear button.
Fill ==
    /\ pc = "idle"
    /\ nwrites < MaxWrites
    /\ pixels' = fill(pixels, air)
    /\ snap' = [snap EXCEPT !.px = pixels, !.ch = chunks, !.event = "none", !.since = 0]
    /\ last' = [op |-> "fill"]
    /\ nwrites' = nwrites + 1
    /\ UNCHANGED <<chunks, pc, cur, nsteps>>

\* The Load button with an input that holds a record for every cell.
Load ==
    /\ pc = "idle"
    /\ nwrites < MaxWrites
    /\ \E file \in LoadFiles :
          /\ ~LoadThrows(file)
          /\ pixels' = deserialise(pixels, file)
    /\ chunks' = wake_all_chunks(chunks)
    /\ snap' = [snap EXCEPT !.px = pixels, !.ch = chunks, !.event = "none", !.since = 0]
    /\ last' = [op |-> "load"]
    /\ nwrites' = nwrites + 1
    /\ UNCHANGED <<pc, cur, nsteps>>

\* The Load button with an input that ends early: the exception leaves
\* display_ui and main, and the program ends.
LoadFail ==
    /\ pc = "idle"
    /\ nwrites < MaxWrites
    /\ \E file \in LoadFiles :
          /\ LoadThrows(file)
          /\ pixels' = deserialise(pixels, file)
    /\ snap' = [snap EXCEPT !.px = pixels, !.ch = chunks, !.event = "none", !.since = 0]
    /\ last' = [op |-> "load_failed"]
    /\ pc' = "terminated"
    /\ nwrites' = nwrites + 1
    /\ UNCHANGED <<chunks, cur, nsteps>>

LoadSteps == MaxSteps + 2

LoadStepBegin == StepEntry(LoadSteps)

\* The worlds in memory when the editor is used: water in the last cell,
\* and sand at the top.
LoadScenarios ==
    { WorldOn(air, (<<world_size - 1, world_size - 1>> :> pixel_of("water"))),
      WorldOn(air, (<<1, 0>> :> pixel_of("sand"))) }

InitLoad ==
    /\ pixels \in LoadScenarios
    /\ chunks = [c \in ChunkIdx |-> new_chunk]
    /\ pc = "idle"
    /\ cur = NoCur
    /\ nsteps = 0
    /\ nwrites = 0
    /\ last = NoCall
    /\ snap = NoSnap

NextLoad ==
    \/ LoadStepBegin \/ RowBegin \/ InnerSkip \/ InnerUpdate \/ StepEnd
    \/ Fill \/ Load \/ LoadFail

SpecLoad == InitLoad /\ [][NextLoad]_vars

AllAsleep(ch) ==
    /\ num_awake_chunks(ch) = 0
    /\ \A c \in DOMAIN ch : ~ch[c].should_step_next

\* C11: from the entry of the second consecutive step after fill(air())
\* on, with no write in between, no chunk is awake, and none is awake in
\* any later step.
C11_AsleepAfterFill ==
    (snap.event = "fill" /\ snap.since >= 2) => AllAsleep(chunks)

\* The second step after a fill has returned with every chunk asleep, and
\* during the first step after the fill a chunk was awake; the world held
\* a pixel before the fill.
C11_Witness ==
    /\ snap.event = "fill" /\ snap.since = 2
    /\ last.op = "step"
    /\ num_awake_chunks(snap.ch) > 0
    /\ AllAsleep(chunks)
    /\ pixels = AirWorld

\* The cells of chunk c, and the cells in it or within one cell of its
\* border.
CellsOf(c) == { p \in Pos : ChunkOf(p) = c }

NearChunk(c) ==
    { p \in Pos : \E q \in CellsOf(c) : Abs(p[1] - q[1]) <= 1 /\ Abs(p[2] - q[2]) <= 1 }

NoneBurning(px, c) == \A p \in CellsOf(c) : "is_burning" \notin px[p].flags

\* C12: when the rows of a step are done, a chunk has should_step_next
\* clear if no cell in it or within one cell of its border changed during
\* the step and it held no burning cell.
C12_QuietChunkSleeps ==
    pc = "end" =>
        \A c \in ChunkIdx :
            (/\ NearChunk(c) \cap snap.dirty = {}
             /\ NoneBurning(snap.px, c) /\ NoneBurning(pixels, c))
                => ~chunks[c].should_step_next

\* C14: in the step that follows a load and its wake_all_chunks, every
\* chunk is active and the iteration passes over no pixel because its chunk
\* sleeps, whatever the chunk flags were before the load.
C14_StepAfterLoadVisitsAll ==
    (snap.event = "load" /\ snap.since = 1 /\ pc # "idle") =>
        /\ \A c \in ChunkIdx : chunks[c].should_step
        /\ last.op \in {"skip", "update_pixel"} => last.skipped.asleep = {}

\* C15: after a load that failed because the input was cut short, every
\* cell holds the value it had before the load.
C15_FailedLoadLeavesWorld == last.op = "load_failed" => pixels = snap.px

---------------------------------------------------------------------------
(* swap, called on two cells and then on the same cells the other way      *)
(* round.                                                                  *)

asleep_chunk == [should_step |-> FALSE, should_step_next |-> FALSE]

\* The chunk flags when swap is called: all as constructed, all asleep, and
\* only the first chunk awake.
SwapChunks ==
    { [c \in ChunkIdx |-> IF c \in A THEN new_chunk ELSE asleep_chunk]
        : A \in {ChunkIdx, {}, {0}} }

SwapWorlds ==
    { WorldOn(air, (<<0, 0>> :> pixel_of("sand")) @@ (<<1, 1>> :> pixel_of("water"))
                @@ (<<world_size - 1, world_size - 1>> :> titanium)),
      WorldOn(pixel_of("rock"), (<<world_size - 1, 0>> :> pixel_of("lava"))) }

InitSwap ==
    /\ pixels \in SwapWorlds
    /\ chunks \in SwapChunks
    /\ pc = "idle"
    /\ cur = NoCur
    /\ nsteps = 0
    /\ nwrites = 0
    /\ last = NoCall
    /\ snap = NoSnap

CallSwap ==
    /\ last.op = "none"
    /\ \E a \in Pos, b \in Pos :
          LET s == swap(Running(pixels, chunks), a, b) IN
          /\ pixels' = s.px
          /\ chunks' = s.ch
          /\ last' = [op |-> "swap", lhs |-> a, rhs |-> b, ret |-> swap_ret(a, b)]
    /\ snap' = [snap EXCEPT !.px = pixels, !.ch = chunks]
    /\ UNCHANGED <<pc, cur, nsteps, nwrites>>

\* swap(b, a) after swap(a, b).
CallSwapBack ==
    /\ last.op = "swap"
    /\ LET s == swap(Running(pixels, chunks), last.rhs, last.lhs) IN
          /\ pixels' = s.px
          /\ chunks' = s.ch
    /\ last' = [op |-> "swap_back", lhs |-> last.rhs, rhs |-> last.lhs,
                ret |-> swap_ret(last.rhs, last.lhs)]
    /\ UNCHANGED <<pc, cur, nsteps, nwrites, snap>>

NextSwap == CallSwap \/ CallSwapBack

SpecSwap == InitSwap /\ [][NextSwap]_vars

Exchanged(px, qx, a, b) ==
    /\ qx[a] = px[b]
    /\ qx[b] = px[a]
    /\ \A p \in Pos \ {a, b} : qx[p] = px[p]

\* C13 as stated: swap(a, b) exchanges the two cells and returns b, and
\* swap(b, a) after it restores the world, cells and chunk flags, to what
\* it was before the first swap.
C13_SwapRestoresWorld ==
    /\ last.op = "swap" =>
          /\ Exchanged(snap.px, pixels, last.lhs, last.rhs)
          /\ last.ret = last.rhs
    /\ last.op = "swap_back" =>
          /\ pixels = snap.px
          /\ chunks = snap.ch

\* C13 amended: swap(a, b) exchanges the two cells and returns b, and
\* swap(b, a) after it restores every cell; the chunks of a and b have
\* should_step_next set after each of the two swaps.
C13_SwapRestoresCells ==
    /\ last.op = "swap" =>
          /\ Exchanged(snap.px, pixels, last.lhs, last.rhs)
          /\ last.ret = last.rhs
    /\ last.op = "swap_back" =>
          /\ pixels = snap.px
          /\ last.ret = last.rhs
    /\ last.op \in {"swap", "swap_back"} =>
          /\ Awake(chunks, last.lhs)
          /\ Awake(chunks, last.rhs)

\* Two different pixels were swapped and swapped back: the cells are as
\* before and a chunk that was asleep is awake.
C13_Witness ==
    /\ last.op = "swap_back"
    /\ snap.px[last.lhs] # snap.px[last.rhs]
    /\ pixels = snap.px
    /\ ~Awake(snap.ch, last.lhs)
    /\ Awake(chunks, last.lhs)

---------------------------------------------------------------------------
(* Steps on a world that holds one column of a material at the top of the  *)
(* middle, and nothing else.                                               *)

MidX == world_size \div 2

\* The steps given to sand, and to water, to reach the floor.
SandSteps == 2 * world_size
FallSteps == 4 * world_size

WaterCells == world_size \div 2

\* The empty world with n cells of material t in column x, from row 0 down.
Column(t, x, n) ==
    WorldOn(air, [p \in {<<x, y>> : y \in 0 .. (n - 1)} |-> pixel_of(t)])

FallScenarios == {Column("sand", MidX, 1), Column("water", MidX, WaterCells)}

InitFall ==
    /\ pixels \in FallScenarios
    /\ chunks = [c \in ChunkIdx |-> new_chunk]
    /\ pc = "idle"
    /\ cur = NoCur
    /\ nsteps = 0
    /\ nwrites = 0
    /\ last = NoCall
    /\ snap = NoSnap

FallStepBegin == StepEntry(FallSteps)

NextFall == FallStepBegin \/ RowBegin \/ InnerSkip \/ InnerUpdate \/ StepEnd

SpecFall == InitFall /\ [][NextFall]_vars

Holds(px, t) == \E p \in Pos : px[p].type = t

\* C16: in the world that is empty except for one sand cell at the top of
\* the middle column, after the steps given to sand the bottom cell of that
\* column is sand with is_falling clear and the top cell is empty, whatever
\* the draws were.
C16_SandLandsBelow ==
    (pc = "idle" /\ nsteps = SandSteps /\ Holds(pixels, "sand")) =>
        /\ pixels[<<MidX, world_size - 1>>].type = "sand"
        /\ "is_falling" \notin pixels[<<MidX, world_size - 1>>].flags
        /\ pixels[<<MidX, 0>>].type = "none"

\* C17: in the world that is empty except for a column of water at the top
\* of the middle column, after the steps given to water the bottom row
\* holds as many water cells side by side as the column had.
C17_WaterReachesFloor ==
    (pc = "idle" /\ nsteps = FallSteps /\ Holds(pixels, "water")) =>
        \E x \in 0 .. (world_size - WaterCells) :
            \A i \in 0 .. (WaterCells - 1) :
                pixels[<<x + i, world_size - 1>>].type = "water"

---------------------------------------------------------------------------
(* affect_neighbours, called on a cell in the middle, on an edge and in a  *)
(* corner of the world.                                                    *)

AffectCentres == {<<1, 1>>, <<0, 0>>, <<world_size - 1, 1>>}

\* Around the centre: water on all sides; water, coal, steam and air mixed;
\* sand and rock with one water cell.
AffectGrounds ==
    { [p \in Pos |-> pixel_of("water")],
      [p \in Pos |-> pixel_of(CASE (p[1] + 2 * p[2]) % 4 = 0 -> "water"
                                [] (p[1] + 2 * p[2]) % 4 = 1 -> "coal"
                                [] (p[1] + 2 * p[2]) % 4 = 2 -> "steam"
                                [] OTHER -> "none")],
      [p \in Pos |-> pixel_of(IF p = <<1, 0>> THEN "water"
                              ELSE IF p[2] = 0 THEN "rock" ELSE "sand")] }

InitAffect ==
    /\ \E g \in AffectGrounds, c \in AffectCentres, t \in {"lava", "acid"} :
          pixels = [g EXCEPT ![c] = pixel_of(t)]
    /\ chunks = [c \in ChunkIdx |-> new_chunk]
    /\ pc = "idle"
    /\ cur = NoCur
    /\ nsteps = 0
    /\ nwrites = 0
    /\ last = NoCall
    /\ snap = NoSnap

CallAffect ==
    /\ last.op = "none"
    /\ \E pos \in AffectCentres :
          /\ pixels[pos].type \in {"lava", "acid"}
          /\ \E s \in affect_neighbours(Running(pixels, chunks), pos) :
                /\ pixels' = s.px
                /\ chunks' = s.ch
          /\ last' = [op |-> "affect_neighbours", pos |-> pos]
    /\ snap' = [snap EXCEPT !.px = pixels, !.ch = chunks]
    /\ UNCHANGED <<pc, cur, nsteps, nwrites>>

NextAffect == CallAffect

SpecAffect == InitAffect /\ [][NextAffect]_vars

Neighbours(pos) == { Off(pos, neighbour_offsets[i]) : i \in 1..8 } \cap Pos

\* C18: after affect_neighbours has run on a cell whose material can boil
\* water, every in-bounds neighbour that was water is steam and the cell
\* has the type it had.
C18_LavaBoilsWater ==
    (last.op = "affect_neighbours" /\ properties(snap.px[last.pos]).can_boil_water) =>
        /\ \A n \in Neighbours(last.pos) :
              snap.px[n].type = "water" => pixels[n].type = "steam"
        /\ pixels[last.pos].type = snap.px[last.pos].type

\* Lava in the middle of water has run its neighbour effects: all eight
\* neighbours were water and are steam, and the lava is lava.
C18_Witness ==
    /\ last.op = "affect_neighbours"
    /\ snap.px[last.pos].type = "lava"
    /\ Cardinality(Neighbours(last.pos)) = 8
    /\ \A n \in Neighbours(last.pos) :
          snap.px[n].type = "water" /\ pixels[n].type = "steam"
    /\ pixels[last.pos].type = "lava"

\* ------------------------------------------------------------------------
\* The edge of the world: set, step and apply_explosion on and beside the
\* outermost rows and columns.

\* Worlds walled in by titanium: sand about to slide into the left column
\* beside sand; lava in the bottom right corner, and water against the
\* right edge.
EdgeScenarios ==
    { WorldOn(titanium, (<<1, 0>> :> pixel_of("sand")) @@ (<<1, 1>> :> Rested("sand", 1))
                @@ (<<0, 1>> :> air)),
      WorldOn(titanium, (<<world_size - 1, world_size - 1>> :> pixel_of("lava"))
                @@ (<<world_size - 1, 0>> :> pixel_of("water"))
                @@ (<<world_size - 2, 0>> :> air)) }

\* Corners written to from outside.
EdgePos == {<<0, 0>>, <<world_size - 1, world_size - 1>>}

\* Explosions centred in a corner.
EdgeBlasts ==
    { [pos |-> <<0, 0>>, info |-> [min_radius |-> 1, max_radius |-> 1, scorch |-> 0]],
      [pos |-> <<world_size - 1, world_size - 1>>,
       info |-> [min_radius |-> 1, max_radius |-> 2, scorch |-> 0]] }

InitEdge ==
    /\ pixels \in EdgeScenarios
    /\ chunks = [c \in ChunkIdx |-> new_chunk]
    /\ pc = "idle"
    /\ cur = NoCur
    /\ nsteps = 0
    /\ nwrites = 0
    /\ last = NoCall
    /\ snap = NoSnap

\* world::set on a corner cell.
EdgeSet ==
    /\ pc = "idle"
    /\ nwrites < MaxWrites
    /\ \E pos \in EdgePos :
          LET s == set(Running(pixels, chunks), pos, pixel_of("sand")) IN
          /\ pixels' = s.px
          /\ chunks' = s.ch
          /\ last' = [op |-> "set", pos |-> pos]
          /\ snap' = [snap EXCEPT !.edge = s.edge]
    /\ nwrites' = nwrites + 1
    /\ UNCHANGED <<pc, cur, nsteps>>

\* The entry of apply_explosion for an explosion in a corner.
EdgeExplode ==
    /\ pc = "idle"
    /\ nwrites < MaxWrites
    /\ \E c \in EdgeBlasts :
          /\ last' = [op |-> "apply_explosion", pos |-> c.pos, info |-> c.info]
          /\ cur' = [i |-> -boundary(c.info), j |-> 1]
    /\ snap' = [snap EXCEPT !.px = pixels, !.ch = chunks, !.edge = {}]
    /\ pc' = "ray"
    /\ nwrites' = nwrites + 1
    /\ UNCHANGED <<pixels, chunks, nsteps>>

NextEdge ==
    \/ StepBegin \/ RowBegin \/ InnerSkip \/ InnerUpdate \/ StepEnd
    \/ EdgeSet \/ EdgeExplode \/ ExplosionRay

SpecEdge == InitEdge /\ [][NextEdge]_vars

\* C21: whatever set, step and apply_explosion do, at the edge of the world
\* included, no cell outside the pixel grid and no chunk outside the chunk
\* array is written.
C21_AccessInsideGrid == \A e \in snap.edge : e[1] = 0

\* During a step a pixel has moved into the left column beside a pixel that
\* gravity acts on, and the chunk of the position left of it, outside the
\* world, was woken.
C21_Witness ==
    /\ pc \in {"row", "cell", "end"}
    /\ last.op = "update_pixel"
    /\ \E y \in Coord : <<0, -1, y>> \in snap.edge

\* ------------------------------------------------------------------------
\* Empty cells after a step.

\* C22: whenever step() has returned, every cell of type none has velocity
\* (0, 0) and no flag set, the cells that became empty in the step through
\* burn-out, corrosion or a swap included.
C22_EmptyCellsClean ==
    last.op = "step" =>
        \A p \in Pos : pixels[p].type = "none" =>
            pixels[p].velocity = <<0, 0>> /\ pixels[p].flags = {}

\* A step has returned in which a burning pixel burnt out and left its
\* cell empty.
C22_Witness ==
    /\ last.op = "step"
    /\ \E p \in Pos : snap.px[p].type \in {"ember", "coal"} /\ pixels[p].type = "none"
                      /\ "is_burning" \in snap.px[p].flags

\* ------------------------------------------------------------------------
\* Immovable solids.

Immovable == {"rock", "titanium"}

\* C23: under step() an immovable solid never changes position: a cell that
\* holds rock or titanium during or after a step held that same pixel, by
\* type and colour, when the step was entered, so that neither its own
\* position phase nor the movement of another pixel has brought it there.
C23_ImmovableStays ==
    (pc \in {"row", "cell", "end"} \/ last.op = "step") =>
        \A p \in Pos : pixels[p].type \in Immovable =>
            /\ snap.px[p].type = pixels[p].type
            /\ snap.px[p].colour = pixels[p].colour

\* All rows of a step are done: update_pixel has run on a rock, and a cell
\* next to the rock has changed in the step.
C23_Witness ==
    /\ pc = "end"
    /\ \E p \in Pos :
          /\ pixels[p].type = "rock"
          /\ pixels[p].runs = 1
          /\ \E i \in 1..8 :
                LET n == Off(p, neighbour_offsets[i]) IN
                valid(n) /\ pixels[n].type # snap.px[n].type

\* ------------------------------------------------------------------------
\* The driver's clock (sandfall.m.cpp), in an empty world. Time is counted in
\* ticks, TimeStep of them to one config::time_step.

TimeStep  == 3
MaxDt     == 7
MaxFrames == 4

InitFrame ==
    /\ pixels = AirWorld
    /\ chunks = [c \in ChunkIdx |-> new_chunk]
    /\ pc = "frame"
    /\ cur = [accumulator |-> 0, calls |-> 0]
    /\ nsteps = 0
    /\ nwrites = 0
    /\ last = NoCall
    /\ snap = NoSnap

\* The head of a frame: the timer's dt is added to the accumulator.
FrameBegin ==
    /\ pc = "frame"
    /\ nwrites < MaxFrames
    /\ \E dt \in 0 .. MaxDt :
          /\ cur' = [accumulator |-> cur.accumulator + dt, calls |-> 0]
          /\ last' = [op |-> "frame", dt |-> dt]
    /\ pc' = "loop"
    /\ nwrites' = nwrites + 1
    /\ UNCHANGED <<pixels, chunks, nsteps, snap>>

\* One pass of the inner while loop: the accumulator is decremented and
\* sand::update runs, which in an empty world promotes the chunk flags and
\* clears is_updated.
FrameStep ==
    /\ pc = "loop"
    /\ cur.accumulator > TimeStep
    /\ cur' = [accumulator |-> cur.accumulator - TimeStep, calls |-> cur.calls + 1]
    /\ chunks' = promote(chunks)
    /\ pixels' = clear_updated(pixels)
    /\ nsteps' = nsteps + 1
    /\ last' = [op |-> "update"]
    /\ UNCHANGED <<pc, nwrites, snap>>

\* The inner while loop ends.
FrameEnd ==
    /\ pc = "loop"
    /\ ~(cur.accumulator > TimeStep)
    /\ pc' = "frame"
    /\ last' = [op |-> "frame_end"]
    /\ UNCHANGED <<pixels, chunks, cur, nsteps, nwrites, snap>>

NextFrame == FrameBegin \/ FrameStep \/ FrameEnd

SpecFrame == InitFrame /\ [][NextFrame]_vars

\* C24: on every frame step() is invoked as long as accumulator >= time_step
\* holds, so that when the loop ends 0 <= accumulator < time_step; a step is
\* also taken when the accumulator equals time_step exactly.
C24_AccumulatorBelowStep ==
    last.op = "frame_end" => 0 <= cur.accumulator /\ cur.accumulator < TimeStep

\* ------------------------------------------------------------------------
\* update_pixel_attributes, called on a burning cell in the open and on one
\* that is surrounded.

BurnCentres == {<<1, 1>>, <<0, 0>>, <<world_size - 1, 1>>}

BurnGrounds == AffectGrounds \cup {AirWorld}

BurnTypes == {"coal", "ember", "oil"}

InitBurn ==
    /\ \E g \in BurnGrounds, c \in BurnCentres, t \in BurnTypes :
          pixels = [g EXCEPT ![c] = Burning(t)]
    /\ chunks = [c \in ChunkIdx |-> asleep_chunk]
    /\ pc = "idle"
    /\ cur = NoCur
    /\ nsteps = 0
    /\ nwrites = 0
    /\ last = NoCall
    /\ snap = NoSnap

CallAttributes ==
    /\ last.op = "none"
    /\ \E pos \in BurnCentres :
          /\ pixels[pos].type \in BurnTypes
          /\ "is_burning" \in pixels[pos].flags
          /\ \E s \in update_pixel_attributes(Running(pixels, chunks), pos) :
                /\ pixels' = s.px
                /\ chunks' = s.ch
                /\ last' = [op |-> "update_pixel_attributes", pos |-> pos, rng |-> s.rng]
    /\ snap' = [snap EXCEPT !.px = pixels, !.ch = chunks]
    /\ UNCHANGED <<pc, cur, nsteps, nwrites>>

NextBurn == CallAttributes

SpecBurn == InitBurn /\ [][NextBurn]_vars

\* C25: in the attribute update of a burning cell, a cell whose is_burning
\* was cleared by the put-out draw (the first draw of the update) is not
\* replaced with air in the same update.
C25_PutOutKeepsCell ==
    last.op = "update_pixel_attributes" =>
        ~(last.rng[1] = 1 /\ pixels[last.pos].type = "none")

\* ------------------------------------------------------------------------
\* move_offset, called on a pixel with offsets along the axes and across
\* them, in the open and towards obstacles and the edge of the world.

AlongStarts  == {<<0, 0>>, <<1, 1>>, <<world_size - 1, 2>>}
AlongOffsets == {<<0, 2>>, <<2, 1>>, <<-2, 0>>, <<1, -3>>, <<0, 0>>, <<3, 3>>, <<-1, 1>>}
AlongMovers  ==
    {pixel_of("sand"), pixel_of("water"), pixel_of("steam"),
     Rested("sand", 7), Rested("sand", 13), Rested("water", 7)}

\* An empty world; air, water and steam in diagonal bands; air above a
\* row of titanium.
AlongGrounds ==
    { AirWorld,
      [p \in Pos |-> pixel_of(CASE (p[1] + p[2]) % 3 = 0 -> "none"
                                [] (p[1] + p[2]) % 3 = 1 -> "water"
                                [] OTHER -> "steam")],
      [p \in Pos |-> IF p[2] = 2 THEN titanium ELSE air] }

InitAlong ==
    /\ \E g \in AlongGrounds, c \in AlongStarts, p \in AlongMovers :
          pixels = [g EXCEPT ![c] = p]
    /\ chunks = [c \in ChunkIdx |-> asleep_chunk]
    /\ pc = "idle"
    /\ cur = NoCur
    /\ nsteps = 0
    /\ nwrites = 0
    /\ last = NoCall
    /\ snap = NoSnap

CallMoveOffset ==
    /\ last.op = "none"
    /\ \E pos \in AlongStarts, offset \in AlongOffsets :
          /\ pixels[pos].type # "none"
          /\ \E r \in move_offset(Running(pixels, chunks), pos, offset) :
                /\ pixels' = r.s.px
                /\ chunks' = r.s.ch
                /\ last' = [op |-> "move_offset", pos |-> pos, offset |-> offset,
                            end |-> r.pos, moved |-> r.moved]
    /\ snap' = [snap EXCEPT !.px = pixels, !.ch = chunks]
    /\ UNCHANGED <<pc, cur, nsteps, nwrites>>

\* update_pixel_position on a pixel.
CallPosition ==
    /\ last.op = "none"
    /\ \E pos \in AlongStarts :
          /\ pixels[pos].type # "none"
          /\ \E r \in update_pixel_position(Running(pixels, chunks), pos) :
                /\ pixels' = r.s.px
                /\ chunks' = r.s.ch
                /\ last' = [op |-> "update_pixel_position", pos |-> pos, end |-> r.pos]
    /\ snap' = [snap EXCEPT !.px = pixels, !.ch = chunks]
    /\ UNCHANGED <<pc, cur, nsteps, nwrites>>

NextAlong == CallMoveOffset \/ CallPosition

SpecAlong == InitAlong /\ [][NextAlong]_vars

\* The number of rounds of the last call and its i-th waypoint.
Rounds == Max(Abs(last.offset[1]), Abs(last.offset[2]))

Waypoint(i) ==
    IF i = 0 THEN last.pos
    ELSE <<last.pos[1] + TruncDiv(last.offset[1] * i, Rounds),
           last.pos[2] + TruncDiv(last.offset[2] * i, Rounds)>>

Chebyshev(p, q) == Max(Abs(p[1] - q[1]), Abs(p[2] - q[2]))

\* Two cells hold the same pixel, whatever its flags.
SamePixel(p, q) == p.type = q.type /\ p.colour = q.colour /\ p.velocity = q.velocity

\* C26: move_offset moves the pixel only by successive swaps with a cell at
\* Chebyshev distance exactly 1 from its current position, performs at most
\* max(|dx|, |dy|) swaps, and stops at the first waypoint that
\* can_pixel_move_to refuses: the pixel ends on a waypoint k, every waypoint
\* up to k is adjacent to the one before and was accepted, waypoint k + 1
\* was refused, and the world is the old one with the pixel swapped along
\* the waypoints up to k.
C26_MoveBySwaps ==
    last.op = "move_offset" =>
        \E k \in 0 .. Rounds :
            /\ last.end = Waypoint(k)
            /\ \A j \in 1 .. k :
                  /\ Chebyshev(Waypoint(j - 1), Waypoint(j)) = 1
                  /\ can_pixel_move_to(snap.px, last.pos, Waypoint(j))
                  /\ SamePixel(pixels[Waypoint(j - 1)], snap.px[Waypoint(j)])
            /\ k < Rounds => ~can_pixel_move_to(snap.px, last.pos, Waypoint(k + 1))
            /\ SamePixel(pixels[Waypoint(k)], snap.px[last.pos])
            /\ \A p \in Pos \ {Waypoint(j) : j \in 0 .. k} :
                  SamePixel(pixels[p], snap.px[p])

\* A call with a slanted offset went two cells and was stopped before the
\* last waypoint.
C26_Witness ==
    /\ last.op = "move_offset"
    /\ last.offset[1] # 0 /\ last.offset[2] # 0
    /\ last.end = Waypoint(2)
    /\ Rounds > 2

\* C27: at the end of the position phase the pixel at its final position has
\* is_falling set exactly when the final position differs from the start,
\* whichever branch ended the phase.
C27_FallingIffMoved ==
    last.op = "update_pixel_position" =>
        ("is_falling" \in pixels[last.end].flags <=> last.end # last.pos)



\* The phase ended without a move for a pixel that entered it with
\* is_falling set and had an offset to try.
C27_Witness ==
    /\ last.op = "update_pixel_position"
    /\ last.end = last.pos
    /\ "is_falling" \in snap.px[last.pos].flags
    /\ "is_falling" \notin pixels[last.pos].flags
    /\ properties(pixels[last.pos]).can_move_diagonally

\* C32: when the position phase ends with the pixel where it started, a
\* pixel with a non-zero gravity factor has vertical velocity 0.
C32_UnmovedVelocityZero ==
    (/\ last.op = "update_pixel_position"
     /\ last.end = last.pos
     /\ properties(snap.px[last.pos]).gravity_factor # 0)
        => pixels[last.pos].velocity[2] = 0

\* ------------------------------------------------------------------------
\* apply_explosion with radii that are not whole numbers. The fields of info
\* are counted in units of 1 / RadiusScale of a cell here; boundary(info) is
\* linear and gives the boundary in the same unit.

RadiusScale == 2

\* The loop index is followed up to MaxIndex.
MaxIndex == 6

\* Radii 1 to 1.5, 1 to 1, and 0.5 to 1.
FractionCases ==
    { [pos |-> <<1, 1>>, info |-> [min_radius |-> 2, max_radius |-> 3, scorch |-> 0]],
      [pos |-> <<1, 1>>, info |-> [min_radius |-> 2, max_radius |-> 2, scorch |-> 0]],
      [pos |-> <<2, 1>>, info |-> [min_radius |-> 1, max_radius |-> 2, scorch |-> 0]] }

\* The whole numbers of cells a draw from [min_radius, max_radius] is
\* sampled at, and the deviation of the scorch draw.
InCells(info) ==
    [min_radius |-> (info.min_radius + RadiusScale - 1) \div RadiusScale,
     max_radius |-> info.max_radius \div RadiusScale,
     scorch     |-> info.scorch]

InitFraction ==
    /\ pixels \in {AirWorld, [AirWorld EXCEPT ![<<1, 1>>] = pixel_of("sand")]}
    /\ chunks = [c \in ChunkIdx |-> asleep_chunk]
    /\ pc = "idle"
    /\ cur = NoCur
    /\ nsteps = 0
    /\ nwrites = 0
    /\ last = NoCall
    /\ snap = NoSnap

\* The entry of apply_explosion: int i = -boundary.
FractionBegin ==
    /\ pc = "idle"
    /\ last.op = "none"
    /\ \E c \in FractionCases :
          /\ last' = [op |-> "apply_explosion", pos |-> c.pos, info |-> c.info]
          /\ cur' = [i |-> TruncDiv(-boundary(c.info), RadiusScale), j |-> 1]
    /\ snap' = [snap EXCEPT !.px = pixels, !.ch = chunks]
    /\ pc' = "ray"
    /\ UNCHANGED <<pixels, chunks, nsteps, nwrites>>

\* The offset of the end of the j-th ray cast for i, in units of
\* 1 / RadiusScale of a cell.
FractionLine(info, i, j) ==
    CASE j = 1 -> <<RadiusScale * i, boundary(info)>>
      [] j = 2 -> <<RadiusScale * i, -boundary(info)>>
      [] j = 3 -> <<boundary(info), RadiusScale * i>>
      [] j = 4 -> <<-boundary(info), RadiusScale * i>>

\* One call of explosion_ray; after the fourth, ++i and the test
\* i != boundary + 1.
FractionRay ==
    /\ pc = "ray"
    /\ \E s \in explosion_ray(Running(pixels, chunks), last.pos,
                              Off(last.pos, FractionLine(last.info, cur.i, cur.j)),
                              InCells(last.info)) :
          /\ pixels' = s.px
          /\ chunks' = s.ch
    /\ IF cur.j < 4
       THEN /\ cur' = [cur EXCEPT !.j = @ + 1]
            /\ pc' = "ray"
       ELSE IF RadiusScale * (cur.i + 1) = boundary(last.info) + RadiusScale
       THEN /\ cur' = NoCur
            /\ pc' = "idle"
       ELSE IF cur.i + 1 <= MaxIndex
       THEN /\ cur' = [i |-> cur.i + 1, j |-> 1]
            /\ pc' = "ray"
       ELSE /\ cur' = NoCur
            /\ pc' = "beyond"
    /\ UNCHANGED <<nsteps, nwrites, last, snap>>

NextFraction == FractionBegin \/ FractionRay

SpecFraction == InitFraction /\ [][NextFraction]_vars

\* C28: for every info with 0 <= min_radius <= max_radius and scorch >= 0,
\* whole numbers or not, apply_explosion casts the four rays for each whole
\* i from -B to B, with B = max_radius + 3 * scorch, and returns: no ray is
\* cast for an i beyond B.
C28_RaysWithinBoundary ==
    pc = "ray" =>
        /\ -boundary(last.info) <= RadiusScale * cur.i
        /\ RadiusScale * cur.i <= boundary(last.info)

\* ------------------------------------------------------------------------
\* Chunks of replaced and of flagged cells after a step.

\* The cell p held water at step entry and holds steam now, or held a pixel
\* and is empty now.
Replaced(p) ==
    \/ snap.px[p].type = "water" /\ pixels[p].type = "steam"
    \/ snap.px[p].type # "none" /\ pixels[p].type = "none"

\* C29: when a step has returned, the chunk of every cell that was replaced
\* in it (water boiled to steam, a pixel corroded or burnt out to air) has
\* should_step_next set.
C29_ReplacedChunkAwake ==
    last.op = "step" =>
        \A p \in Pos : Replaced(p) => chunks[ChunkOf(p)].should_step_next

\* C30: in a run that starts with all chunks awake and writes only through
\* set, after every step each cell with is_falling or is_burning set lies
\* in a chunk whose should_step_next is set.
C30_FlaggedChunkAwake ==
    last.op = "step" =>
        \A p \in Pos :
            pixels[p].flags \cap {"is_falling", "is_burning"} # {}
                => chunks[ChunkOf(p)].should_step_next

\* A step has returned during which one cell was set burning and another
\* cell was set falling, each holding the material it held at step entry.
C30_Witness ==
    /\ last.op = "step"
    /\ \E p \in Pos :
          /\ "is_burning" \in pixels[p].flags
          /\ "is_burning" \notin snap.px[p].flags
          /\ pixels[p].type = snap.px[p].type
    /\ \E p \in Pos :
          /\ pixels[p].type # "none"
          /\ "is_falling" \in pixels[p].flags
          /\ "is_falling" \notin snap.px[p].flags
          /\ pixels[p].type = snap.px[p].type

---------------------------------------------------------------------------
(* Runs of step() alone: the worlds of Scenarios with no write between     *)
(* the steps.                                                              *)

NextStep == StepBegin \/ RowBegin \/ InnerSkip \/ InnerUpdate \/ StepEnd

SpecStep == Init /\ [][NextStep]_vars

\* The materials that no phase of update_pixel produces.
Conserved == pixel_type \ {"none", "steam", "ember"}

Count(px, m) == Cardinality({ p \in Pos : px[p].type = m })

\* C31: under step() alone the number of cells of a material other than
\* none, steam and ember never exceeds its number at step entry, neither
\* while the step runs nor when it has returned.
C31_MaterialNeverGrows ==
    (pc \in {"row", "cell", "end"} \/ last.op = "step") =>
        \A m \in Conserved : Count(pixels, m) <= Count(snap.px, m)

\* A step has returned in which a pixel of one conserved material changed
\* cell and the cells of some conserved material became fewer.
C31_Witness ==
    /\ last.op = "step"
    /\ pc = "idle"
    /\ \E m \in Conserved : Count(pixels, m) < Count(snap.px, m)
    /\ \E m \in Conserved, p \in Pos :
          /\ pixels[p].type = m
          /\ snap.px[p].type # m
          /\ Count(pixels, m) = Count(snap.px, m)

---------------------------------------------------------------------------
(* affect_neighbours one round of its loop at a time, on a corrosion       *)
(* source.  cur holds the centre, the index of the next offset and the     *)
(* properties record looked up before the loop; snap.px is the world at    *)
(* the head of the round that ran last.                                    *)

InitRound ==
    /\ \E g \in AffectGrounds, c \in AffectCentres :
          pixels = [g EXCEPT ![c] = pixel_of("acid")]
    /\ chunks = [c \in ChunkIdx |-> new_chunk]
    /\ pc = "idle"
    /\ cur = NoCur
    /\ nsteps = 0
    /\ nwrites = 0
    /\ last = NoCall
    /\ snap = NoSnap

\* The head of affect_neighbours: pixel and props are bound.
AffectBegin ==
    /\ pc = "idle"
    /\ last.op = "none"
    /\ \E pos \in AffectCentres :
          /\ pixels[pos].type = "acid"
          /\ cur' = [pos |-> pos, i |-> 1, props |-> properties(pixels[pos])]
    /\ pc' = "round"
    /\ last' = [op |-> "affect_neighbours", pos |-> cur'.pos]
    /\ UNCHANGED <<pixels, chunks, nsteps, nwrites, snap>>

\* One round of the loop on a neighbour inside the grid.
AffectRound ==
    /\ pc = "round"
    /\ LET n == Off(cur.pos, neighbour_offsets[cur.i]) IN
       /\ valid(n)
       /\ \E s \in AffectOne(Running(pixels, chunks), cur.pos, n, cur.props) :
             /\ pixels' = s.px
             /\ chunks' = s.ch
       /\ last' = [op |-> "round", pos |-> cur.pos, n |-> n]
    /\ snap' = [snap EXCEPT !.px = pixels, !.ch = chunks]
    /\ cur' = [cur EXCEPT !.i = @ + 1]
    /\ pc' = IF cur.i = 8 THEN "done" ELSE "round"
    /\ UNCHANGED <<nsteps, nwrites>>

\* One round of the loop on an offset that leads outside the grid.
AffectOutside ==
    /\ pc = "round"
    /\ ~valid(Off(cur.pos, neighbour_offsets[cur.i]))
    /\ last' = [op |-> "outside", pos |-> cur.pos]
    /\ cur' = [cur EXCEPT !.i = @ + 1]
    /\ pc' = IF cur.i = 8 THEN "done" ELSE "round"
    /\ UNCHANGED <<pixels, chunks, nsteps, nwrites, snap>>

NextRound == AffectBegin \/ AffectRound \/ AffectOutside

SpecRound == InitRound /\ [][NextRound]_vars

\* C33: a round of the loop that starts when the corrosion source has
\* already been replaced with air leaves the neighbour it examines as it
\* was.
C33_SpentSourceInert ==
    (last.op = "round" /\ snap.px[last.pos].type = "none")
        => pixels[last.n] = snap.px[last.n]

====
